---- MODULE Spec2Model ----
(***************************************************************************)
(* Model of trader/controller.py: the three clocks, ControllerBase,        *)
(* ThreadedControllerMixin and Controller.  Two threads of control: the    *)
(* caller (run, stop, run_until_stopped) and the background thread that    *)
(* executes ThreadedControllerMixin._run.                                  *)
(***************************************************************************)
EXTENDS Integers, Sequences, FiniteSets, TLC

(* ------------------------------ bounds --------------------------------- *)
\* ticks a run is followed for while no stop is requested
MaxTicks == 3
\* strategy.tick calls a run is followed for while no stop is requested
MaxCalls == 4
\* largest strategy collection
MaxStrategies == 2
\* longest operation list one strategy.tick call returns
MaxOps == 2
\* largest simulated start timestamp (seconds)
MaxStart == 1
\* longest simulated range, stop - start (seconds)
MaxSpan == 3

VARIABLES
    _clock,           \* ControllerBase._clock: the clock's configuration
    _strategies,      \* ControllerBase._strategies: ordered collection
    _stop_requested,  \* ThreadedControllerMixin._stop_requested
    _main_loop,       \* ThreadedControllerMixin._main_loop: "None" or "Thread"
    _is_running,      \* ThreadedControllerMixin._is_running
    bgpc,             \* position of the background thread in _run
    callerpc,         \* position of the caller thread
    clock,            \* _run's local iterator: the generator's frame
    tick,             \* _run's local `tick`
    idx,              \* loop index into _strategies (initialize / execute_tick)
    operations,       \* execute_tick's local `operations`
    chained,          \* what itertools.chain(*operations) has still to yield
    exc,              \* exception that ended the background thread
    raised,           \* last exception raised to the caller
    nticks,           \* ticks pulled from the clock so far
    now,              \* wall clock read by datetime.utcnow()
    starts,           \* strategy.start calls observed, in order
    tickCalls,        \* strategy.tick calls observed, with their outcome
    execTicks,        \* arguments of the execute_tick calls, in order
    brokerLog,        \* operations the broker observed, in order
    initCalls,        \* arguments of the initialize calls, in order
    stopSeen,         \* where the background thread was when the flag rose
    stopReturned,     \* some stop() call has returned
    rusResult,        \* how run_until_stopped returned, if it did
    trav              \* a traversal of the clock on its own: what it yielded

vars == << _clock, _strategies, _stop_requested, _main_loop, _is_running,
           bgpc, callerpc, clock, tick, idx, operations, chained, exc, raised,
           nticks, now, starts, tickCalls, execTicks, brokerLog, initCalls,
           stopSeen, stopReturned, rusResult, trav >>

\* what no operation of the controller touches
ctrlVars == << _clock, _strategies, trav >>
bgLocals == << clock, tick, idx, operations, chained, nticks, now >>
logs == << starts, tickCalls, execTicks, brokerLog, initCalls >>
callerHist == << raised, stopSeen, stopReturned, rusResult >>

(* ------------------------------ values --------------------------------- *)
\* a tick is a timestamp (seconds) or Python's None (DummyClock)
Time(n) == [kind |-> "time", v |-> n]
None == [kind |-> "None", v |-> 0]

\* what strategy.tick returns: None, or a list of operations (maybe empty)
ResNone == [kind |-> "None", ops |-> << >>]
ResList(k) == [kind |-> "list", ops |-> [j \in 1..k |-> j]]
Results == {ResNone} \cup {ResList(k) : k \in 0..MaxOps}

\* Python truthiness of a strategy.tick result
Truthy(r) == r.kind = "list" /\ Len(r.ops) > 0

(* ------------------------------ clocks --------------------------------- *)
IntervalClock(interval) ==
    [kind |-> "IntervalClock", start |-> 0, stop |-> 0, interval |-> interval]

DummyClock ==
    [kind |-> "DummyClock", start |-> 0, stop |-> 0, interval |-> 0]

\* timedelta(seconds=interval) over integer seconds
SimulatedClock(start, stop, interval) ==
    [kind |-> "SimulatedClock", start |-> start, stop |-> stop,
     interval |-> interval]

\* iter(self._clock): a generator frame that has not run yet
NewIter == [started |-> FALSE, current |-> 0]

\* SimCursor with the cursor advanced before its first yield as well
SimCursorAdvancesFirst(c, it) ==
    IF it.started THEN it.current + c.interval ELSE c.start + c.interval

\* SimulatedClock.__iter__: the cursor the generator tests on its next resume
SimCursor(c, it) ==
    IF it.started THEN it.current + c.interval ELSE c.start

\* SimHasNext with the stop timestamp included in the range
SimHasNextInclusive(c, it) == SimCursor(c, it) <= c.stop

\* SimulatedClock.__iter__: `while current < self.stop`
SimHasNext(c, it) == SimCursor(c, it) < c.stop

\* does next() on the generator yield (TRUE) or raise StopIteration (FALSE)
HasNext(c, it) ==
    IF c.kind = "SimulatedClock" THEN SimHasNext(c, it) ELSE TRUE

\* the wall-clock instants utcnow() may return on the next resume: after the
\* first yield sleep(interval) has elapsed (execution time between ticks is
\* taken as zero)
NowAfter(c, it, t) ==
    IF it.started THEN {t + c.interval} ELSE {t}

\* the value next() yields, given the wall-clock reading w
Yield(c, it, w) ==
    CASE c.kind = "SimulatedClock" -> Time(SimCursor(c, it))
      [] c.kind = "IntervalClock"  -> Time(w)
      [] OTHER                     -> None

\* the generator frame after that yield
Resume(c, it, w) ==
    CASE c.kind = "SimulatedClock" ->
            [started |-> TRUE, current |-> SimCursor(c, it)]
      [] c.kind = "IntervalClock"  -> [started |-> TRUE, current |-> w]
      [] OTHER                     -> [started |-> TRUE, current |-> 0]

\* wall-clock readings the next resume may see (only IntervalClock reads it)
Readings(c, it, t) ==
    IF c.kind = "IntervalClock" THEN NowAfter(c, it, t) ELSE {t}

(* --------------------------- execute_tick ------------------------------ *)
\* an operation as the broker sees it: who returned it, which one, for which tick
Op(s, r, j, t) == [s |-> s, op |-> r.ops[j], tick |-> t]

RECURSIVE ChainReversed(_)
\* Chain with the per-strategy lists taken last to first
ChainReversed(rs) ==
    IF rs = << >> THEN << >>
    ELSE LET h == Head(rs)
         IN  ChainReversed(Tail(rs))
             \o [j \in 1..Len(h.res.ops) |-> Op(h.s, h.res, j, h.tick)]

RECURSIVE Chain(_)
\* itertools.chain(*operations) over entries [s, res, tick]
Chain(rs) ==
    IF rs = << >> THEN << >>
    ELSE LET h == Head(rs)
         IN  [j \in 1..Len(h.res.ops) |-> Op(h.s, h.res, j, h.tick)]
             \o Chain(Tail(rs))

\* truthiness of a collected entry
EntryTruthy(e) == Truthy(e.res)

\* Filter that stops at the first falsy result
FilterUpToFalsy(rs) ==
    IF \E k \in 1..Len(rs) : ~EntryTruthy(rs[k])
    THEN SubSeq(rs, 1, (CHOOSE k \in 1..Len(rs) :
                          /\ ~EntryTruthy(rs[k])
                          /\ \A j \in 1..(k - 1) : EntryTruthy(rs[j])) - 1)
    ELSE rs

\* operations = [op for op in operations if op]
Filter(rs) == SelectSeq(rs, EntryTruthy)

\* lines 109-111: drop falsy results, then chain the rest
Flatten(rs) == Chain(Filter(rs))

\* the stop flag has not been raised yet
NotSeen == [set |-> FALSE, pc |-> "none", n |-> 0]

(* ------------------------------- Init ---------------------------------- *)
Clocks ==
    {DummyClock, IntervalClock(1)}
    \cup UNION {{SimulatedClock(s, e, i) : e \in 0..(s + MaxSpan), i \in 1..2} :
                s \in 0..MaxStart}

\* ThreadedControllerMixin.__init__, and nothing has run yet
InitRest ==
    /\ _stop_requested = FALSE
    /\ _main_loop = "None"
    /\ _is_running = FALSE
    /\ bgpc = "none"
    /\ callerpc = "idle"
    /\ clock = NewIter
    /\ tick = None
    /\ idx = 1
    /\ operations = << >>
    /\ chained = << >>
    /\ exc = "none"
    /\ raised = "none"
    /\ nticks = 0
    /\ now = 0
    /\ starts = << >>
    /\ tickCalls = << >>
    /\ execTicks = << >>
    /\ brokerLog = << >>
    /\ initCalls = << >>
    /\ stopSeen = NotSeen
    /\ stopReturned = FALSE
    /\ rusResult = "none"
    /\ trav = [out |-> << >>, done |-> FALSE]

Init ==
    /\ _clock \in Clocks
    /\ _strategies \in {[j \in 1..n |-> j] : n \in 0..MaxStrategies}
    /\ InitRest

(* ------------------------ background thread ---------------------------- *)
\* Die with the exception caught and recorded inside the loop, which goes on
DieSwallowed(e) ==
    /\ bgpc' = bgpc
    /\ exc' = e

\* an uncaught exception leaves _run: the thread ends, nothing else changes
Die(e) ==
    /\ bgpc' = "dead"
    /\ exc' = e

\* line 89: self._is_running = True
BgSetRunning ==
    /\ bgpc = "l89"
    /\ _is_running' = TRUE
    /\ bgpc' = "l90"
    /\ UNCHANGED << ctrlVars, _stop_requested, _main_loop, callerpc, bgLocals,
                    exc, logs, callerHist >>

\* BgFirstTick with the first tick read but left in the iterator
BgFirstTickPeeks ==
    /\ bgpc = "l90"
    /\ IF HasNext(_clock, NewIter)
       THEN \E w \in Readings(_clock, NewIter, now) :
              /\ tick' = Yield(_clock, NewIter, w)
              /\ clock' = NewIter
              /\ now' = w
              /\ nticks' = nticks + 1
              /\ initCalls' = Append(initCalls, tick')
              /\ idx' = 1
              /\ bgpc' = "init"
              /\ exc' = exc
       ELSE /\ Die("StopIteration")
            /\ UNCHANGED << tick, clock, now, nticks, initCalls, idx >>
    /\ UNCHANGED << ctrlVars, _stop_requested, _main_loop, _is_running,
                    callerpc, operations, chained, starts, tickCalls,
                    execTicks, brokerLog, callerHist >>

\* lines 90-91: clock = iter(self._clock); next(clock); enter initialize
BgFirstTick ==
    /\ bgpc = "l90"
    /\ IF HasNext(_clock, NewIter)
       THEN \E w \in Readings(_clock, NewIter, now) :
              /\ tick' = Yield(_clock, NewIter, w)
              /\ clock' = Resume(_clock, NewIter, w)
              /\ now' = w
              /\ nticks' = nticks + 1
              /\ initCalls' = Append(initCalls, tick')
              /\ idx' = 1
              /\ bgpc' = "init"
              /\ exc' = exc
       ELSE /\ Die("StopIteration")
            /\ UNCHANGED << tick, clock, now, nticks, initCalls, idx >>
    /\ UNCHANGED << ctrlVars, _stop_requested, _main_loop, _is_running,
                    callerpc, operations, chained, starts, tickCalls,
                    execTicks, brokerLog, callerHist >>

\* lines 51-52: one strategy.start(self._broker, tick) call, which may raise
BgStart ==
    /\ bgpc = "init"
    /\ idx <= Len(_strategies)
    /\ starts' = Append(starts, [s |-> _strategies[idx], tick |-> tick])
    /\ \/ /\ idx' = idx + 1
          /\ UNCHANGED << bgpc, exc >>
       \/ /\ Die("StrategyError")
          /\ idx' = idx
    /\ UNCHANGED << ctrlVars, _stop_requested, _main_loop, _is_running,
                    callerpc, clock, tick, operations, chained, nticks, now,
                    tickCalls, execTicks, brokerLog, initCalls,
                    callerHist >>

\* BgInitDone with initialize returning from inside its loop
BgInitReturnsEarly ==
    /\ bgpc = "init"
    /\ idx >= 1
    /\ bgpc' = "for"
    /\ UNCHANGED << ctrlVars, _stop_requested, _main_loop, _is_running,
                    callerpc, bgLocals, exc, logs, callerHist >>

\* line 51: the for loop of initialize is exhausted; initialize returns
BgInitDone ==
    /\ bgpc = "init"
    /\ idx > Len(_strategies)
    /\ bgpc' = "for"
    /\ UNCHANGED << ctrlVars, _stop_requested, _main_loop, _is_running,
                    callerpc, bgLocals, exc, logs, callerHist >>

\* a run is followed for MaxTicks ticks and MaxCalls strategy.tick calls; past
\* that the loop is followed only to its exit (the clock is exhausted, or
\* the stop flag is up)
MayPull ==
    \/ ~HasNext(_clock, clock)
    \/ _stop_requested
    \/ /\ nticks < MaxTicks
       /\ Len(tickCalls) + Len(_strategies) <= MaxCalls

\* line 92: `for tick in clock`
BgFor ==
    /\ bgpc = "for"
    /\ MayPull
    /\ IF HasNext(_clock, clock)
       THEN \E w \in Readings(_clock, clock, now) :
              /\ tick' = Yield(_clock, clock, w)
              /\ clock' = Resume(_clock, clock, w)
              /\ now' = w
              /\ nticks' = nticks + 1
              /\ bgpc' = "chk1"
       ELSE /\ bgpc' = "l98"
            /\ UNCHANGED << tick, clock, now, nticks >>
    /\ UNCHANGED << ctrlVars, _stop_requested, _main_loop, _is_running,
                    callerpc, idx, operations, chained, exc, logs,
                    callerHist >>

\* BgCheckBefore with the flag not consulted before a tick is executed
BgCheckBeforeIgnoresFlag ==
    /\ bgpc = "chk1"
    /\ bgpc' = "l95"
    /\ UNCHANGED << ctrlVars, _stop_requested, _main_loop, _is_running,
                    callerpc, bgLocals, exc, logs, callerHist >>

\* lines 93-94: `if self._stop_requested: break`
BgCheckBefore ==
    /\ bgpc = "chk1"
    /\ bgpc' = IF _stop_requested THEN "l98" ELSE "l95"
    /\ UNCHANGED << ctrlVars, _stop_requested, _main_loop, _is_running,
                    callerpc, bgLocals, exc, logs, callerHist >>

\* line 95: the call self.execute_tick(tick) begins
BgExecuteTick ==
    /\ bgpc = "l95"
    /\ bgpc' = "collect"
    /\ idx' = 1
    /\ operations' = << >>
    /\ execTicks' = Append(execTicks, tick)
    /\ UNCHANGED << ctrlVars, _stop_requested, _main_loop, _is_running,
                    callerpc, clock, tick, chained, nticks, now, exc, starts,
                    tickCalls, brokerLog, initCalls, callerHist >>

\* BgCollect with each returned list applied to the broker as it comes in
BgCollectApplies ==
    /\ bgpc = "collect"
    /\ idx <= Len(_strategies)
    /\ \/ \E r \in Results :
             /\ operations' = Append(operations,
                    [s |-> _strategies[idx], res |-> r, tick |-> tick])
             /\ tickCalls' = Append(tickCalls,
                    [s |-> _strategies[idx], tick |-> tick,
                     n |-> Len(execTicks), out |-> "return", res |-> r])
             /\ brokerLog' = brokerLog \o
                    [j \in 1..Len(r.ops) |->
                        [n |-> Len(execTicks),
                         op |-> Op(_strategies[idx], r, j, tick)]]
             /\ idx' = idx + 1
             /\ UNCHANGED << bgpc, exc >>
       \/ /\ tickCalls' = Append(tickCalls,
                    [s |-> _strategies[idx], tick |-> tick,
                     n |-> Len(execTicks), out |-> "raise", res |-> ResNone])
          /\ Die("StrategyError")
          /\ UNCHANGED << operations, idx, brokerLog >>
    /\ UNCHANGED << ctrlVars, _stop_requested, _main_loop, _is_running,
                    callerpc, clock, tick, chained, nticks, now, starts,
                    execTicks, initCalls, callerHist >>

\* line 108: one strategy.tick(tick) call, which returns a result or raises
BgCollect ==
    /\ bgpc = "collect"
    /\ idx <= Len(_strategies)
    /\ \/ \E r \in Results :
             /\ operations' = Append(operations,
                    [s |-> _strategies[idx], res |-> r, tick |-> tick])
             /\ tickCalls' = Append(tickCalls,
                    [s |-> _strategies[idx], tick |-> tick,
                     n |-> Len(execTicks), out |-> "return", res |-> r])
             /\ idx' = idx + 1
             /\ UNCHANGED << bgpc, exc >>
       \/ /\ tickCalls' = Append(tickCalls,
                    [s |-> _strategies[idx], tick |-> tick,
                     n |-> Len(execTicks), out |-> "raise", res |-> ResNone])
          /\ Die("StrategyError")
          /\ UNCHANGED << operations, idx >>
    /\ UNCHANGED << ctrlVars, _stop_requested, _main_loop, _is_running,
                    callerpc, clock, tick, chained, nticks, now, starts, execTicks, brokerLog, initCalls, callerHist >>

\* lines 109-111: filter the falsy results and build the chain; with nothing
\* to apply execute_tick returns
BgFilter ==
    /\ bgpc = "collect"
    /\ idx > Len(_strategies)
    /\ chained' = Flatten(operations)
    /\ bgpc' = IF chained' = << >> THEN "chk2" ELSE "apply"
    /\ UNCHANGED << ctrlVars, _stop_requested, _main_loop, _is_running,
                    callerpc, clock, tick, idx, operations, nticks, now, exc,
                    logs, callerHist >>

\* BgApply with the stop flag consulted between operations
BgApplyStopsMidTick ==
    /\ bgpc = "apply"
    /\ chained # << >>
    /\ IF _stop_requested
       THEN /\ chained' = << >>
            /\ bgpc' = "chk2"
            /\ UNCHANGED << brokerLog, exc >>
       ELSE /\ brokerLog' = Append(brokerLog,
                    [n |-> Len(execTicks), op |-> Head(chained)])
            /\ chained' = Tail(chained)
            /\ bgpc' = IF chained' = << >> THEN "chk2" ELSE "apply"
            /\ exc' = exc
    /\ UNCHANGED << ctrlVars, _stop_requested, _main_loop, _is_running,
                    callerpc, clock, tick, idx, operations, nticks, now,
                    starts, tickCalls, execTicks, initCalls, callerHist >>

\* line 112: operation(self._broker), which may raise; after the last one
\* execute_tick returns
BgApply ==
    /\ bgpc = "apply"
    /\ chained # << >>
    /\ \/ /\ brokerLog' = Append(brokerLog,
                    [n |-> Len(execTicks), op |-> Head(chained)])
          /\ chained' = Tail(chained)
          /\ bgpc' = IF chained' = << >> THEN "chk2" ELSE "apply"
          /\ exc' = exc
       \/ /\ Die("OperationError")
          /\ UNCHANGED << brokerLog, chained >>
    /\ UNCHANGED << ctrlVars, _stop_requested, _main_loop, _is_running,
                    callerpc, clock, tick, idx, operations, nticks, now,
                    starts, tickCalls, execTicks, initCalls, callerHist >>

\* lines 96-97: break if the flag is up, else go round the loop
BgCheckAfter ==
    /\ bgpc = "chk2"
    /\ bgpc' = IF _stop_requested THEN "l98" ELSE "for"
    /\ UNCHANGED << ctrlVars, _stop_requested, _main_loop, _is_running,
                    callerpc, bgLocals, exc, logs, callerHist >>

\* line 98: self._is_running = False; _run returns and the thread ends
BgClearRunning ==
    /\ bgpc = "l98"
    /\ _is_running' = FALSE
    /\ bgpc' = "done"
    /\ UNCHANGED << ctrlVars, _stop_requested, _main_loop, callerpc,
                    bgLocals, exc, logs, callerHist >>

Background ==
    \/ BgSetRunning
    \/ BgFirstTick
    \/ BgStart
    \/ BgInitDone
    \/ BgFor
    \/ BgCheckBefore
    \/ BgExecuteTick
    \/ BgCollect
    \/ BgFilter
    \/ BgApply
    \/ BgCheckAfter
    \/ BgClearRunning

(* --------------------------- caller thread ----------------------------- *)
\* line 102 seen from outside: remember where the loop was when the flag
\* first rose
Seen ==
    IF stopSeen.set THEN stopSeen
    ELSE [set |-> TRUE, pc |-> bgpc, n |-> Len(execTicks)]

\* Run without the assertion: every call creates and starts a thread
RunWithoutAssert ==
    /\ callerpc = "idle"
    /\ _main_loop' = "Thread"
    /\ bgpc' = "l89"
    /\ raised' = "none"
    /\ UNCHANGED << ctrlVars, _stop_requested, _is_running, callerpc,
                    bgLocals, exc, logs, stopSeen, stopReturned, rusResult >>

\* Run with the stop flag cleared for the new run
RunResetsFlag ==
    /\ callerpc = "idle"
    /\ IF _main_loop = "None"
       THEN /\ _main_loop' = "Thread"
            /\ bgpc' = "l89"
            /\ raised' = "none"
            /\ _stop_requested' = FALSE
       ELSE /\ raised' = "AssertionError"
            /\ UNCHANGED << _main_loop, bgpc, _stop_requested >>
    /\ UNCHANGED << ctrlVars, _is_running, callerpc, bgLocals, exc, logs,
                    stopSeen, stopReturned, rusResult >>

\* lines 74-77: run(); a second call fails its assertion
Run ==
    /\ callerpc = "idle"
    /\ IF _main_loop = "None"
       THEN /\ _main_loop' = "Thread"
            /\ bgpc' = "l89"
            /\ raised' = "none"
       ELSE /\ raised' = "AssertionError"
            /\ UNCHANGED << _main_loop, bgpc >>
    /\ UNCHANGED << ctrlVars, _stop_requested, _is_running, callerpc,
                    bgLocals, exc, logs, stopSeen, stopReturned, rusResult >>

\* lines 100-103 up to the join: raise the flag; with no thread to join,
\* None.join raises AttributeError
Stop ==
    /\ callerpc = "idle"
    /\ _stop_requested' = TRUE
    /\ stopSeen' = Seen
    /\ IF _main_loop = "None"
       THEN /\ raised' = "AttributeError"
            /\ callerpc' = callerpc
       ELSE /\ raised' = "none"
            /\ callerpc' = "join"
    /\ UNCHANGED << ctrlVars, _main_loop, _is_running, bgpc, bgLocals, exc,
                    logs, stopReturned, rusResult >>

\* Joined for a join that does not wait for the thread
JoinedAtOnce(pc) == pc # "none"

\* Thread.join(): returns once the thread has ended
Joined(pc) == pc \in {"done", "dead"}

\* line 103: self._main_loop.join() returns, and stop() with it
StopJoin ==
    /\ callerpc = "join"
    /\ Joined(bgpc)
    /\ callerpc' = "idle"
    /\ stopReturned' = TRUE
    /\ UNCHANGED << ctrlVars, _stop_requested, _main_loop, _is_running, bgpc,
                    bgLocals, exc, logs, raised, stopSeen, rusResult >>

\* line 80: run_until_stopped() calls run()
RunUntilStopped ==
    /\ callerpc = "idle"
    /\ IF _main_loop = "None"
       THEN /\ _main_loop' = "Thread"
            /\ bgpc' = "l89"
            /\ raised' = "none"
            /\ callerpc' = "rus_poll"
            /\ rusResult' = "none"
       ELSE /\ raised' = "AssertionError"
            /\ UNCHANGED << _main_loop, bgpc, callerpc, rusResult >>
    /\ UNCHANGED << ctrlVars, _stop_requested, _is_running, bgLocals, exc,
                    logs, stopSeen, stopReturned >>

\* line 81: `while self._is_running`; when false run_until_stopped returns
RusPoll ==
    /\ callerpc = "rus_poll"
    /\ IF _is_running
       THEN /\ callerpc' = "rus_sleep"
            /\ UNCHANGED rusResult
       ELSE /\ callerpc' = "idle"
            /\ rusResult' = "returned"
    /\ UNCHANGED << ctrlVars, _stop_requested, _main_loop, _is_running, bgpc,
                    bgLocals, exc, logs, raised, stopSeen, stopReturned >>

\* line 83: sleep(1) elapses
RusSleep ==
    /\ callerpc = "rus_sleep"
    /\ callerpc' = "rus_poll"
    /\ UNCHANGED << ctrlVars, _stop_requested, _main_loop, _is_running, bgpc,
                    bgLocals, exc, logs, callerHist >>

\* lines 84-85: KeyboardInterrupt during the sleep; stop() raises the flag
RusInterrupt ==
    /\ callerpc = "rus_sleep"
    /\ _stop_requested' = TRUE
    /\ stopSeen' = Seen
    /\ callerpc' = "rus_join"
    /\ UNCHANGED << ctrlVars, _main_loop, _is_running, bgpc, bgLocals, exc,
                    logs, raised, stopReturned, rusResult >>

\* lines 103, 86: the join inside that stop() returns, then `break`
RusJoin ==
    /\ callerpc = "rus_join"
    /\ Joined(bgpc)
    /\ callerpc' = "idle"
    /\ stopReturned' = TRUE
    /\ rusResult' = "interrupted"
    /\ UNCHANGED << ctrlVars, _stop_requested, _main_loop, _is_running, bgpc,
                    bgLocals, exc, logs, raised, stopSeen >>

Caller ==
    \/ Run
    \/ Stop
    \/ StopJoin
    \/ RunUntilStopped
    \/ RusPoll
    \/ RusSleep
    \/ RusInterrupt
    \/ RusJoin

Next == Background \/ Caller

Spec == Init /\ [][Next]_vars

\* the interpreter schedules the background thread whenever it can step
FairSpec == Spec /\ WF_vars(Background)

(* ------------------------ the clock on its own ------------------------- *)
\* SimulatedClock(start, stop, interval) as __init__ accepts it: any interval
ClockInputs ==
    UNION {{SimulatedClock(s, e, i) : e \in 0..(s + MaxSpan),
                                      i \in (0 - 1)..MaxSpan} :
           s \in 0..MaxStart}

InitClock ==
    /\ _clock \in ClockInputs
    /\ _strategies = << >>
    /\ InitRest

\* one step of `for t in clock`: the generator yields its next value, or
\* returns; a traversal that cannot end (interval <= 0 below stop) is
\* followed for MaxTicks values
Traverse ==
    /\ ~trav.done
    /\ _clock.interval > 0 \/ Len(trav.out) < MaxTicks
    /\ IF HasNext(_clock, clock)
       THEN /\ trav' = [trav EXCEPT
                          !.out = Append(@, Yield(_clock, clock, now))]
            /\ clock' = Resume(_clock, clock, now)
       ELSE /\ trav' = [trav EXCEPT !.done = TRUE]
            /\ clock' = clock
    /\ UNCHANGED << _clock, _strategies, _stop_requested, _main_loop,
                    _is_running, bgpc, callerpc, tick, idx, operations,
                    chained, exc, nticks, now, logs, callerHist >>

SpecClock == InitClock /\ [][Traverse]_vars

TypeOK ==
    /\ _stop_requested \in BOOLEAN
    /\ _is_running \in BOOLEAN
    /\ _main_loop \in {"None", "Thread"}
    /\ bgpc \in {"none", "l89", "l90", "init", "for", "chk1", "l95",
                  "collect", "apply", "chk2", "l98", "done", "dead"}
    /\ callerpc \in {"idle", "join", "rus_poll", "rus_sleep", "rus_join"}
    /\ exc \in {"none", "StopIteration", "StrategyError", "OperationError"}
    /\ raised \in {"none", "AssertionError", "AttributeError"}
    /\ nticks \in 0..(MaxTicks + MaxSpan)

(* ----------------------- observations for the claims ------------------- *)
IsPrefix(a, b) == Len(a) <= Len(b) /\ a = SubSeq(b, 1, Len(a))

\* the background thread exists and has not ended
Executing ==
    bgpc \in {"l89", "l90", "init", "for", "chk1", "l95", "collect",
              "apply", "chk2", "l98"}

\* the background thread has ended, by return or by exception
Ended == bgpc \in {"done", "dead"}

\* the exception came out of a strategy or an operation
Failed == exc \in {"StrategyError", "OperationError"}

\* the n-th execute_tick call has returned
TickReturned(n) ==
    \/ n < Len(execTicks)
    \/ n = Len(execTicks) /\ bgpc \in {"chk2", "for", "chk1", "l95", "l98", "done"}

RECURSIVE OfTick(_, _)
\* the entries of a log that belong to the n-th execute_tick call
OfTick(log, n) ==
    IF log = << >> THEN << >>
    ELSE IF Head(log).n = n THEN << Head(log) >> \o OfTick(Tail(log), n)
         ELSE OfTick(Tail(log), n)

\* the operations the broker observed during the n-th execute_tick call
BrokerOps(n) ==
    LET es == OfTick(brokerLog, n) IN [k \in 1..Len(es) |-> es[k].op]

RECURSIVE Returned(_)
\* the operations a sequence of strategy.tick calls returned, call by call
Returned(calls) ==
    IF calls = << >> THEN << >>
    ELSE LET c == Head(calls)
         IN  (IF c.out = "return"
              THEN [j \in 1..Len(c.res.ops) |->
                        [s |-> c.s, op |-> c.res.ops[j], tick |-> c.tick]]
              ELSE << >>)
             \o Returned(Tail(calls))

\* what the strategies returned in the n-th execute_tick call, concatenated
ReturnedInTick(n) == Returned(OfTick(tickCalls, n))

(* ------------------------------- claims -------------------------------- *)
\* C1: once an execute_tick call has returned, the broker has observed for
\* that tick exactly the concatenation of what the strategies returned, in
\* collection order and in each strategy's own order, each operation once;
\* while the call is under way it has observed a prefix of it.
C1_FlattenOrder ==
    \A n \in 1..Len(execTicks) :
        /\ IsPrefix(BrokerOps(n), ReturnedInTick(n))
        /\ TickReturned(n) =>
             /\ BrokerOps(n) = ReturnedInTick(n)
             /\ Len(OfTick(tickCalls, n)) = Len(_strategies)
             /\ \A k \in 1..Len(_strategies) :
                    /\ OfTick(tickCalls, n)[k].s = _strategies[k]
                    /\ OfTick(tickCalls, n)[k].tick = execTicks[n]

\* strategies [A,B], A.tick -> [op1,op2], B.tick -> [op3]: the tick has
\* returned and the broker saw A's two operations, then B's one
C1_Witness ==
    /\ bgpc = "chk2"
    /\ Len(_strategies) = 2
    /\ operations[1].res = ResList(2)
    /\ operations[2].res = ResList(1)
    /\ BrokerOps(Len(execTicks)) =
         << [s |-> 1, op |-> 1, tick |-> tick],
            [s |-> 1, op |-> 2, tick |-> tick],
            [s |-> 2, op |-> 1, tick |-> tick] >>

\* the first value one traversal of the configured clock yields
FirstTick ==
    CASE _clock.kind = "SimulatedClock" -> Time(_clock.start)
      [] _clock.kind = "IntervalClock"  -> Time(0)
      [] OTHER                          -> None

\* the configured clock yields at least one tick
YieldsATick ==
    _clock.kind = "SimulatedClock" => _clock.start < _clock.stop

\* start called on every strategy, in collection order, with the first tick
AllStarts ==
    [k \in 1..Len(_strategies) |-> [s |-> _strategies[k], tick |-> FirstTick]]

\* C2 as stated: a run that is over has called initialize exactly once and
\* start on every strategy of the collection, in collection order.
C2_Original ==
    Ended => Len(initCalls) = 1 /\ starts = AllStarts

\* C2 amended: initialize is called at most once, exactly once when the clock
\* yields a tick and never when it yields none, with the first tick and
\* before any execute_tick call; it calls start with that tick on the
\* strategies in collection order, on all of them unless a start hook raises,
\* and then on those up to the one that raised.
C2_InitializeOnce ==
    /\ Len(initCalls) <= 1
    /\ Len(initCalls) = 1 <=> nticks >= 1
    /\ Ended => (Len(initCalls) = 1 <=> YieldsATick)
    /\ initCalls # << >> => initCalls[1] = FirstTick
    /\ IsPrefix(starts, AllStarts)
    /\ starts # << >> => Len(initCalls) = 1
    /\ execTicks # << >> => Len(initCalls) = 1 /\ starts = AllStarts
    /\ tickCalls # << >> => starts = AllStarts
    /\ (nticks >= 1 /\ starts # AllStarts) =>
          \/ bgpc = "init"
          \/ bgpc = "dead" /\ exc = "StrategyError" /\ starts # << >>

\* two strategies were started on the first tick and a later tick has been
\* executed
C2_Witness ==
    /\ Len(_strategies) = 2
    /\ Len(initCalls) = 1
    /\ starts = AllStarts
    /\ Len(execTicks) = 2
    /\ bgpc = "done"

\* C3: once a stop() call made after run() has returned, the background
\* thread has ended: it is nowhere in _run, initialize or execute_tick.
C3_StopReturnsAfterExit ==
    stopReturned => ~Executing

\* stop() was called while execute_tick was under way, and has returned
C3_Witness ==
    /\ stopReturned
    /\ stopSeen.pc \in {"collect", "apply"}
    /\ bgpc = "done"
    /\ callerpc = "idle"

\* stop() was called once the background thread had been created
StopAfterRun == stopSeen.set /\ stopSeen.pc # "none"

\* C4 as stated, in the form a finite run refutes: stop() was called after
\* run(), no strategy call or operation raised, and the thread has ended
\* (nothing can change is_running any more): is_running is false.
C4_Original ==
    (StopAfterRun /\ Ended /\ ~Failed) => ~_is_running

\* the C5 scenario: simulated clock start=T0, stop=T0+3, interval=1, one
\* strategy whose every tick call returned one operation, no stop request,
\* and the run is over
C5_Scenario ==
    /\ _clock.kind = "SimulatedClock"
    /\ _clock.stop = _clock.start + 3
    /\ _clock.interval = 1
    /\ Len(_strategies) = 1
    /\ \A k \in 1..Len(tickCalls) :
          tickCalls[k].out = "return" /\ tickCalls[k].res = ResList(1)
    /\ ~_stop_requested
    /\ bgpc = "done"

\* the tick values carried by the operations the broker observed, in order
BrokerTicks == [k \in 1..Len(brokerLog) |-> brokerLog[k].op.tick]

\* C5 as stated: in the scenario the broker has observed exactly 3
\* operations, carrying T0, T0+1, T0+2 in that order.
C5_Original ==
    C5_Scenario =>
        BrokerTicks = << Time(_clock.start), Time(_clock.start + 1),
                         Time(_clock.start + 2) >>

\* C5 amended: in the scenario the broker has observed exactly 2 operations,
\* carrying T0+1 and T0+2 in that order; T0 went to initialize, that is to
\* strategy.start, and to no execute_tick call.
C5_EndToEnd ==
    C5_Scenario =>
        /\ BrokerTicks = << Time(_clock.start + 1), Time(_clock.start + 2) >>
        /\ initCalls = << Time(_clock.start) >>
        /\ starts = << [s |-> _strategies[1], tick |-> Time(_clock.start)] >>
        /\ execTicks = << Time(_clock.start + 1), Time(_clock.start + 2) >>

\* the scenario has run to its end with T0 = 1
C5_Witness ==
    /\ C5_Scenario
    /\ _clock.start = 1
    /\ Len(brokerLog) = 2

\* C6 as stated, in the form a finite run refutes: over a simulated clock,
\* with no stop request and nothing raised by a strategy or an operation,
\* once the thread has ended is_running is false.
C6_Original ==
    (_clock.kind = "SimulatedClock" /\ ~_stop_requested /\ Ended /\ ~Failed)
        => ~_is_running

\* C7 as stated: is_running is true only while the background thread exists
\* and has not ended.
C7_Original ==
    _is_running => Executing

\* C8 as stated: when run_until_stopped has returned without a keyboard
\* interrupt, the background thread it started is no longer executing.
C8_Original ==
    rusResult = "returned" => ~Executing

\* the stop flag rose while an execute_tick call was under way
StopMidTick == stopSeen.set /\ stopSeen.pc \in {"collect", "apply"}

\* C9: when the stop flag rises while execute_tick is under way, that call is
\* never left because of the flag: the loop leaves it only with every
\* strategy asked and every returned operation applied in order (or by an
\* exception a strategy or an operation raised); and the loop then breaks: it
\* pulls no further tick and executes none.
C9_StopNeverCutsTick ==
    StopMidTick =>
        /\ Len(execTicks) = stopSeen.n
        /\ bgpc \in {"collect", "apply", "chk2", "l98", "done", "dead"}
        /\ bgpc = "dead" => Failed
        /\ bgpc \in {"chk2", "l98", "done"} =>
              /\ Len(OfTick(tickCalls, stopSeen.n)) = Len(_strategies)
              /\ BrokerOps(stopSeen.n) = ReturnedInTick(stopSeen.n)

\* the flag rose during the collect phase of a tick that had operations to
\* apply; they were all applied, and the loop has ended with ticks left
C9_Witness ==
    /\ stopSeen.set
    /\ stopSeen.pc = "collect"
    /\ bgpc = "done"
    /\ Len(BrokerOps(stopSeen.n)) >= 2
    /\ HasNext(_clock, clock)

\* C10: an exception raised by strategy.start, strategy.tick or an operation
\* ends the background thread there and then (it is not swallowed), a
\* raising strategy.tick call is the last one ever made, and from then on no
\* strategy is called and no operation is applied.
C10_FailFast ==
    /\ [](exc # "none" => bgpc = "dead")
    /\ [](\A k \in 1..Len(tickCalls) :
             tickCalls[k].out = "raise" =>
                 k = Len(tickCalls) /\ exc = "StrategyError")
    /\ [][exc # "none" =>
            UNCHANGED << starts, tickCalls, execTicks, brokerLog, initCalls,
                         bgpc, exc >>]_vars

\* an operation raised with operations of the tick still to apply and ticks
\* still to come
C10_Witness ==
    /\ bgpc = "dead"
    /\ exc = "OperationError"
    /\ Len(chained) >= 2
    /\ HasNext(_clock, clock)

\* a step in which a call by the idle caller ends in AssertionError
RejectedCall ==
    /\ callerpc = "idle"
    /\ callerpc' = "idle"
    /\ raised' = "AssertionError"
    /\ raised # "AssertionError"

\* C11: a background thread is created only while no thread handle exists,
\* so at most once; once the handle exists it never changes and no thread is
\* started again, and a run() call made then ends in AssertionError and
\* changes neither stop_requested, is_running, the handle nor the thread.
C11_RunAtMostOnce ==
    /\ [][(bgpc' = "l89" /\ bgpc # "l89") =>
            (_main_loop = "None" /\ bgpc = "none")]_vars
    /\ [][_main_loop = "Thread" => _main_loop' = "Thread"]_vars
    /\ [][(callerpc = "idle" /\ callerpc' = "idle" /\ _main_loop = "Thread"
           /\ raised' # raised) => raised' = "AssertionError"]_vars
    /\ [][RejectedCall =>
            /\ _main_loop = "Thread"
            /\ UNCHANGED << _main_loop, _stop_requested, _is_running, bgpc,
                            bgLocals, exc, logs >>]_vars

\* a second run() was rejected while the first thread was inside a tick
C11_Witness ==
    /\ raised = "AssertionError"
    /\ _main_loop = "Thread"
    /\ bgpc = "apply"

\* C12: stop_requested starts false, and once true it stays true whatever
\* run, _run, stop, run_until_stopped or execute_tick do next.
C12_StopRequestedMonotonic ==
    /\ ~_stop_requested
    /\ [][_stop_requested => _stop_requested']_vars

\* the flag was raised before run() (that stop() failed on the missing
\* thread), and is still up after a whole run and a second stop()
C12_Witness ==
    /\ _stop_requested
    /\ stopSeen.pc = "none"
    /\ bgpc = "done"
    /\ stopReturned

\* ceil(a / b) for b > 0
CeilDiv(a, b) == (a + b - 1) \div b

\* C13: a traversal of SimulatedClock(start, stop, interval) with
\* interval > 0 yields start, start+interval, ... , all below stop, and when
\* it ends it has yielded ceil((stop-start)/interval) values if start < stop;
\* with stop <= start it yields nothing, whatever the interval.
C13_SimulatedSequence ==
    /\ _clock.interval > 0 =>
          /\ \A k \in 1..Len(trav.out) :
                /\ trav.out[k] = Time(_clock.start + (k - 1) * _clock.interval)
                /\ trav.out[k].v < _clock.stop
          /\ (trav.done /\ _clock.start < _clock.stop) =>
                Len(trav.out) =
                    CeilDiv(_clock.stop - _clock.start, _clock.interval)
    /\ _clock.stop <= _clock.start => trav.out = << >>

\* start=1, stop=4, interval=2: the traversal has ended after 1 and 3
C13_Witness ==
    /\ _clock = SimulatedClock(1, 4, 2)
    /\ trav.done
    /\ trav.out = << Time(1), Time(3) >>

\* C14 as stated: a simulated clock with a zero or negative interval was
\* rejected when it was constructed, so a clock that yields values has a
\* positive interval and its values rise towards stop.
C14_Original ==
    /\ trav.out # << >> => _clock.interval > 0
    /\ \A k \in 2..Len(trav.out) : trav.out[k].v > trav.out[k - 1].v

\* the operations of strategy s among those the broker observed in the
\* n-th execute_tick call
OpsOf(s, n) == SelectSeq(BrokerOps(n), LAMBDA o : o.s = s)

\* C15: once an execute_tick call has returned, a strategy whose tick
\* returned None or an empty list has no operation among those the broker
\* observed for that tick, and every other strategy has exactly its own
\* returned list there, in order, whatever the others returned.
C15_FalsyContributesNothing ==
    \A n \in 1..Len(execTicks) :
        TickReturned(n) =>
            \A k \in 1..Len(OfTick(tickCalls, n)) :
                LET c == OfTick(tickCalls, n)[k]
                IN  /\ (c.res = ResNone \/ c.res = ResList(0)) =>
                          OpsOf(c.s, n) = << >>
                    /\ OpsOf(c.s, n) =
                          [j \in 1..Len(c.res.ops) |->
                              [s |-> c.s, op |-> c.res.ops[j], tick |-> c.tick]]

\* strategies [A,B], A.tick -> [], B.tick -> [op1]: the call has returned
\* and the broker saw exactly B's operation
C15_Witness ==
    /\ bgpc = "chk2"
    /\ Len(_strategies) = 2
    /\ Len(OfTick(tickCalls, Len(execTicks))) = 2
    /\ OfTick(tickCalls, Len(execTicks))[1].res = ResList(0)
    /\ OfTick(tickCalls, Len(execTicks))[2].res = ResList(1)
    /\ BrokerOps(Len(execTicks)) = << [s |-> 2, op |-> 1, tick |-> tick] >>

\* the k-th value one traversal of the configured clock yields (the wall
\* clock starts at 0 and only sleep(interval) advances it)
TickNo(k) ==
    CASE _clock.kind = "SimulatedClock" ->
            Time(_clock.start + (k - 1) * _clock.interval)
      [] _clock.kind = "IntervalClock"  -> Time((k - 1) * _clock.interval)
      [] OTHER                          -> None

\* how many values one traversal of a simulated clock yields
SimTicks ==
    IF _clock.start < _clock.stop
    THEN CeilDiv(_clock.stop - _clock.start, _clock.interval)
    ELSE 0

\* C16: the first tick t1 goes to initialize and to no execute_tick call:
\* the k-th execute_tick call gets t(k+1), and a run that ends with no stop
\* request and no failure over a clock of N >= 1 ticks has made exactly N-1
\* execute_tick calls.
C16_FirstTickToInitializeOnly ==
    /\ \A k \in 1..Len(initCalls) : initCalls[k] = TickNo(1)
    /\ \A k \in 1..Len(execTicks) : execTicks[k] = TickNo(k + 1)
    /\ _clock.kind # "DummyClock" =>
          \A k \in 1..Len(execTicks) : execTicks[k] # TickNo(1)
    /\ (bgpc = "done" /\ ~_stop_requested /\ SimTicks >= 1) =>
          Len(execTicks) = SimTicks - 1

\* start=1, stop=4, interval=1, no stop request: the run is over after
\* initialize(1), execute_tick(2), execute_tick(3)
C16_Witness ==
    /\ _clock = SimulatedClock(1, 4, 1)
    /\ bgpc = "done"
    /\ ~_stop_requested
    /\ initCalls = << Time(1) >>
    /\ execTicks = << Time(2), Time(3) >>

\* C17: once the stop flag is up, at most one more execute_tick call begins:
\* the one whose pre-execution check (line 93) had already passed when the
\* flag rose; in every other case none begins.
C17_AtMostOneMoreTick ==
    stopSeen.set =>
        /\ Len(execTicks) <= stopSeen.n + 1
        /\ stopSeen.pc # "l95" => Len(execTicks) = stopSeen.n

\* the flag rose between the check and the call, and that one call began
C17_Witness ==
    /\ stopSeen.set
    /\ stopSeen.pc = "l95"
    /\ Len(execTicks) = stopSeen.n + 1
    /\ bgpc = "done"
    /\ HasNext(_clock, clock)

\* C18: within one execute_tick call the broker observes an operation only
\* after every strategy's tick call of that tick has returned; if one of
\* them raised, the broker observes no operation for that tick.
C18_CollectBeforeApply ==
    \A n \in 1..Len(execTicks) :
        LET calls == OfTick(tickCalls, n)
        IN  /\ BrokerOps(n) # << >> =>
                  /\ Len(calls) = Len(_strategies)
                  /\ \A k \in 1..Len(calls) : calls[k].out = "return"
            /\ (\E k \in 1..Len(calls) : calls[k].out = "raise") =>
                  BrokerOps(n) = << >>

\* strategies [A,B], A.tick returned two operations, B.tick raised: the
\* thread has ended and the broker saw nothing for that tick
C18_Witness ==
    /\ exc = "StrategyError"
    /\ Len(_strategies) = 2
    /\ Len(OfTick(tickCalls, Len(execTicks))) = 2
    /\ OfTick(tickCalls, Len(execTicks))[1].res = ResList(2)
    /\ OfTick(tickCalls, Len(execTicks))[2].out = "raise"
    /\ BrokerOps(Len(execTicks)) = << >>

\* the stop flag rose after run() and before the first tick was pulled
StopBeforeFirstTick == stopSeen.set /\ stopSeen.pc \in {"l89", "l90"}

\* C19 as stated: when stop() is called right after run(), before the first
\* tick is pulled, the thread still calls initialize with the first tick and
\* start on every strategy, executes no tick, and once it has ended
\* is_running is false.
C19_Original ==
    StopBeforeFirstTick =>
        /\ execTicks = << >>
        /\ Ended =>
              /\ initCalls = << FirstTick >>
              /\ starts = AllStarts
              /\ ~_is_running

====
